---- MODULE Spec2Model ----
(***************************************************************************)
(* PdfViewer (src/components/pdf-viewer.tsx): page navigation, the         *)
(* selection gesture, and the annotation reads, inserts and deletes it     *)
(* issues against the "annotations" table.  Every store call is            *)
(* asynchronous: the handler issues a request, the store serves it at some *)
(* later moment, and the rest of the handler (the code after the await)    *)
(* runs at a still later moment, interleaved with any other UI event.      *)
(* Two further parts of the application have a specification of their own: *)
(* DashboardClient (src/components/dashboard-client.tsx), the viewer's     *)
(* parent, and updateSession (src/lib/supabase/middleware.ts), the access  *)
(* control applied to every request.                                       *)
(***************************************************************************)
EXTENDS Integers, Sequences, FiniteSets, Bags, TLC

\* ---------------------------------------------------------------- bounds
\* Pointer coordinates relative to the viewport range over 0..MaxCoord.
MaxCoord == 1
\* The longest document has MaxPages pages.
MaxPages == 2
\* A session issues at most MaxCalls store calls, the read at mount included.
MaxCalls == 3
\* At most MaxInflight store calls are awaiting their response at once.
MaxInflight == 2

\* The server hands the dashboard at most MaxInitialFiles documents.
MaxInitialFiles == 2
MaxInputLen == 2
MaxMessages == 3
MaxUploads == 2

\* ---------------------------------------------------------------- values
Coords == 0 .. MaxCoord
\* Every point of the viewport, and the pointer positions the events deliver
\* (sampled along the diagonal, so that both sides of a rectangle vary).
AllPoints == [x : Coords, y : Coords]
Points == { [x |-> c, y |-> c] : c \in Coords }

\* A nullable value: null is the empty sequence, a value v is <<v>>.
Null == << >>
Some(v) == << v >>

\* The documents the parent can hand to the viewer (pdfId, pageCount props).
Docs ==
  { [id |-> "pdfA", page_count |-> MaxPages],
    [id |-> "pdfB", page_count |-> 1] }

\* The two buttons of the creation menu.
MenuChoices ==
  { [type |-> "highlight", color |-> "#fde68a"],
    [type |-> "underline", color |-> "#60a5fa"] }

\* Where getBoundingClientRect() places the viewport at mouse-up.
ViewportOrigins == { [left |-> 1, top |-> 1] }

ZeroRect == [x |-> 0, y |-> 0, width |-> 0, height |-> 0]

\* A row of the annotations table; id 0 marks a draft without a store id.
BlankRow ==
  [id |-> 0, pdf_id |-> "", page_number |-> 0, type |-> "", color |-> "",
   position |-> ZeroRect]

\* The annotations in the table when the viewer mounts (an earlier session's).
SeedRows ==
  { [id |-> 1, pdf_id |-> "pdfA", page_number |-> 1, type |-> "highlight",
     color |-> "#fde68a",
     position |-> [x |-> 0, y |-> 0, width |-> 1, height |-> 1]] }

FirstNewId == Cardinality(SeedRows) + 1

\* What one step shows the user or logs.
NoOutput == "none"
ToastCreateFailed == "toast.error: Failed to create annotation"
ToastCreated == "toast.success: Annotation added"
ToastDeleteFailed == "toast.error: Failed to delete annotation"
ToastDeleted == "toast.success: Annotation deleted"
ConsoleLoadError == "console.error: Error loading annotations:"

\* ---------------------------------------------------------------- state
VARIABLES
  pdfId,           \* prop: the document's id
  pageCount,       \* prop: the document's number of pages
  currentPage,
  annotations,     \* the visible set, a sequence of rows
  showMenu,
  menuPosition,
  isSelecting,
  selectionStart,
  selectionEnd,
  selectionBox,    \* Null or Some(rectangle)
  annotationMode,
  store,           \* the annotations table: a set of rows
  nextId,          \* the next id the table assigns
  inflight,        \* bag of store calls issued and not yet resumed
  issued,          \* number of store calls issued so far
  out,             \* what the last step showed or logged
  pdfFiles,        \* DashboardClient: the documents listed in the sidebar
  selectedPdf,     \* DashboardClient: Null or Some(the document on view)
  isUploadOpen,    \* DashboardClient: the upload dialog is open
  request,         \* middleware: Null or Some(the request being handled)
  user,            \* middleware: Null or Some(whom getUser() returned)
  response,        \* middleware: Null or Some(the response it returned)
  messages,        \* ChatInterface: the displayed conversation
  input,           \* ChatInterface: the text field, a sequence of characters
  isLoading,       \* ChatInterface: a submission is under way
  submit,          \* ChatInterface: Null or Some(where handleSubmit stands)
  loadMessages,    \* ChatInterface: where the mount effect's read stands
  messagesTable,   \* the messages table: rows in order of insertion
  chatToast,       \* ChatInterface: the last toast shown
  file,            \* PdfUploadDialog: Null or Some(the chosen file)
  isUploading,     \* PdfUploadDialog: an upload is under way
  error,           \* PdfUploadDialog: Null or Some(the message displayed)
  upload,          \* PdfUploadDialog: Null or Some(where handleUpload stands)
  bucket,          \* the pdfs storage bucket: names of the objects stored
  pdf_files,       \* the pdf_files table: a set of rows
  now,             \* the clock Date.now() reads in handleUpload
  uploadToast      \* PdfUploadDialog: the last toast shown

props == << pdfId, pageCount >>
selection ==
  << showMenu, menuPosition, isSelecting, selectionStart, selectionEnd,
     selectionBox >>
viewer == << currentPage, annotations, selection, annotationMode >>
backend == << store, nextId >>
network == << inflight, issued >>
dashboard == << pdfFiles, selectedPdf, isUploadOpen >>
edge == << request, user, response >>
chat ==
  << messages, input, isLoading, submit, loadMessages, messagesTable,
     chatToast >>
uploadDialog ==
  << file, isUploading, error, upload, bucket, pdf_files, now, uploadToast >>
vars ==
  << props, viewer, backend, network, out, dashboard, edge, chat,
     uploadDialog >>

\* ---------------------------------------------------------------- helpers
Min(a, b) == IF a <= b THEN a ELSE b
Max(a, b) == IF a >= b THEN a ELSE b
Abs(a) == IF a < 0 THEN 0 - a ELSE a

\* computeSelectionBox without Math.abs: the sides keep the drag's sign.
computeSelectionBox_Signed(start, end) ==
  [x |-> Min(start.x, end.x),
   y |-> Min(start.y, end.y),
   width |-> end.x - start.x,
   height |-> end.y - start.y]

computeSelectionBox(start, end) ==
  [x |-> Min(start.x, end.x),
   y |-> Min(start.y, end.y),
   width |-> Abs(end.x - start.x),
   height |-> Abs(end.y - start.y)]

\* prevPage without Math.max: the page is not clamped at 1.
prevPageOf_Unclamped(p) == p - 1

\* The updaters handed to setCurrentPage.
prevPageOf(p) == Max(1, p - 1)
nextPageOf(p, n) == Min(n, p + 1)

\* A store call: stage is "sent", then "ok" or "error" once the store has
\* served it; data is the rows of the response.
Call(kind, row) == [kind |-> kind, row |-> row, stage |-> "sent", data |-> << >>]

ListCall(pdf, page) ==
  Call("list", [BlankRow EXCEPT !.pdf_id = pdf, !.page_number = page])

InsertCall(pdf, page, type, color, box) ==
  Call("insert",
       [BlankRow EXCEPT !.pdf_id = pdf, !.page_number = page, !.type = type,
                        !.color = color, !.position = box])

DeleteCall(id) == Call("delete", [BlankRow EXCEPT !.id = id])

Pending == BagToSet(inflight)
HasRoom == issued < MaxCalls /\ BagCardinality(inflight) < MaxInflight
Issue(c) == inflight (+) SetToBag({c})
Replace(c, d) == (inflight (-) SetToBag({c})) (+) SetToBag({d})
Remove(c) == inflight (-) SetToBag({c})

\* Every order in which the rows of S can be returned.
OrdersOf(S) ==
  { s \in [1 .. Cardinality(S) -> S] :
      \A i, j \in 1 .. Cardinality(S) : i # j => s[i] # s[j] }

RowsOf(pdf, page) == { r \in store : r.pdf_id = pdf /\ r.page_number = page }

\* The filter with its test inverted: prev.filter((a) => a.id === id).
WithoutId_Inverted(seq, id) ==
  LET Same(a) == a.id = id IN SelectSeq(seq, Same)

\* prev.filter((a) => a.id !== id)
RECURSIVE WithoutId(_, _)
WithoutId(seq, id) ==
  IF seq = << >> THEN << >>
  ELSE IF Head(seq).id = id THEN WithoutId(Tail(seq), id)
       ELSE << Head(seq) >> \o WithoutId(Tail(seq), id)

\* Each specification follows one part of the application and holds the
\* state of the other parts at these values.
NoDashboard == pdfFiles = << >> /\ selectedPdf = Null /\ isUploadOpen = FALSE
NoRequest == request = Null /\ user = Null /\ response = Null
NoChat ==
  /\ messages = << >> /\ input = << >> /\ isLoading = FALSE
  /\ submit = Null /\ messagesTable = << >>
  /\ loadMessages = [at |-> "done", data |-> << >>]
  /\ chatToast = NoOutput
NoUploadDialog ==
  /\ file = Null /\ isUploading = FALSE /\ error = Null /\ upload = Null
  /\ bucket = {} /\ pdf_files = {} /\ now = 0 /\ uploadToast = NoOutput

\* ---------------------------------------------------------------- mount
\* The viewer under a parent that supplies the props PdfViewerProps declares.
Init ==
  /\ NoDashboard /\ NoRequest /\ NoChat /\ NoUploadDialog
  /\ \E d \in Docs : pdfId = d.id /\ pageCount = d.page_count
  /\ currentPage = 1
  /\ annotations = << >>
  /\ showMenu = FALSE
  /\ menuPosition = [x |-> 0, y |-> 0]
  /\ isSelecting = FALSE
  /\ selectionStart = [x |-> 0, y |-> 0]
  /\ selectionEnd = [x |-> 0, y |-> 0]
  /\ selectionBox = Null
  /\ annotationMode = FALSE
  /\ store = SeedRows
  /\ nextId = FirstNewId
  \* the effect of the first render calls loadAnnotations()
  /\ inflight = SetToBag({ListCall(pdfId, 1)})
  /\ issued = 1
  /\ out = NoOutput

\* ---------------------------------------------------------------- selection
\* handleMouseDown without setShowMenu(false): an open menu stays open.
handleMouseDown_KeepsMenu(pt) ==
  /\ UNCHANGED << dashboard, edge, chat, uploadDialog >>
  /\ out' = NoOutput
  /\ IF ~annotationMode
     THEN UNCHANGED << props, viewer, backend, network >>
     ELSE /\ isSelecting' = TRUE
          /\ selectionStart' = pt
          /\ selectionEnd' = pt
          /\ selectionBox' = Null
          /\ UNCHANGED << props, currentPage, annotations, showMenu,
                          menuPosition, annotationMode, backend, network >>

handleMouseDown(pt) ==
  /\ UNCHANGED << dashboard, edge, chat, uploadDialog >>
  /\ out' = NoOutput
  /\ IF ~annotationMode
     THEN UNCHANGED << props, viewer, backend, network >>
     ELSE /\ isSelecting' = TRUE
          /\ selectionStart' = pt
          /\ selectionEnd' = pt
          /\ selectionBox' = Null
          /\ showMenu' = FALSE
          /\ UNCHANGED << props, currentPage, annotations, menuPosition,
                          annotationMode, backend, network >>

\* handleMouseMove without its isSelecting test: every move redraws the box.
handleMouseMove_Ungated(pt) ==
  /\ UNCHANGED << dashboard, edge, chat, uploadDialog >>
  /\ out' = NoOutput
  /\ selectionEnd' = pt
  /\ selectionBox' = Some(computeSelectionBox(selectionStart, pt))
  /\ UNCHANGED << props, currentPage, annotations, showMenu, menuPosition,
                  isSelecting, selectionStart, annotationMode, backend,
                  network >>

handleMouseMove(pt) ==
  /\ UNCHANGED << dashboard, edge, chat, uploadDialog >>
  /\ out' = NoOutput
  /\ IF ~isSelecting
     THEN UNCHANGED << props, viewer, backend, network >>
     ELSE /\ selectionEnd' = pt
          /\ selectionBox' = Some(computeSelectionBox(selectionStart, pt))
          /\ UNCHANGED << props, currentPage, annotations, showMenu,
                          menuPosition, isSelecting, selectionStart,
                          annotationMode, backend, network >>

\* handleMouseUp without its selectionBox test: every release arms the menu.
handleMouseUp_ArmsAlways(origin) ==
  /\ UNCHANGED << dashboard, edge, chat, uploadDialog >>
  /\ out' = NoOutput
  /\ IF ~isSelecting
     THEN UNCHANGED << props, viewer, backend, network >>
     ELSE /\ isSelecting' = FALSE
          /\ menuPosition' =
               IF selectionBox = Null
               THEN [x |-> origin.left, y |-> origin.top]
               ELSE [x |-> selectionBox[1].x + origin.left,
                     y |-> selectionBox[1].y + origin.top]
          /\ showMenu' = TRUE
          /\ UNCHANGED << props, currentPage, annotations, selectionStart,
                          selectionEnd, selectionBox, annotationMode, backend,
                          network >>

handleMouseUp(origin) ==
  /\ UNCHANGED << dashboard, edge, chat, uploadDialog >>
  /\ out' = NoOutput
  /\ IF ~isSelecting
     THEN UNCHANGED << props, viewer, backend, network >>
     ELSE /\ isSelecting' = FALSE
          /\ IF selectionBox = Null
             THEN UNCHANGED << menuPosition, showMenu >>
             ELSE /\ menuPosition' = [x |-> selectionBox[1].x + origin.left,
                                      y |-> selectionBox[1].y + origin.top]
                  /\ showMenu' = TRUE
          /\ UNCHANGED << props, currentPage, annotations, selectionStart,
                          selectionEnd, selectionBox, annotationMode, backend,
                          network >>

setAnnotationMode(checked) ==
  /\ UNCHANGED << dashboard, edge, chat, uploadDialog >>
  /\ annotationMode' = checked
  /\ out' = NoOutput
  /\ UNCHANGED << props, currentPage, annotations, selection, backend,
                  network >>

\* ---------------------------------------------------------------- navigation
\* useEffect(() => { loadAnnotations() }, [currentPage, pdfId]): the render
\* that follows a change of currentPage or pdfId issues a read for the new
\* pair; a render that changes neither issues nothing.
\* The effect without its dependency list: every render issues a read.
loadAnnotations_EveryRender(pdf, page) ==
  HasRoom /\ inflight' = Issue(ListCall(pdf, page)) /\ issued' = issued + 1

loadAnnotations(pdf, page) ==
  IF pdf # pdfId \/ page # currentPage
  THEN HasRoom /\ inflight' = Issue(ListCall(pdf, page)) /\ issued' = issued + 1
  ELSE UNCHANGED network

prevPage ==
  /\ UNCHANGED << dashboard, edge, chat, uploadDialog >>
  /\ currentPage' = prevPageOf(currentPage)
  /\ loadAnnotations(pdfId, currentPage')
  /\ out' = NoOutput
  /\ UNCHANGED << props, annotations, selection, annotationMode, backend >>

\* nextPage also dismissing the menu and the rectangle.
nextPage_DropsSelection ==
  /\ UNCHANGED << dashboard, edge, chat, uploadDialog >>
  /\ currentPage' = nextPageOf(currentPage, pageCount)
  /\ loadAnnotations(pdfId, currentPage')
  /\ out' = NoOutput
  /\ selectionBox' = Null
  /\ showMenu' = FALSE
  /\ UNCHANGED << props, annotations, menuPosition, isSelecting,
                  selectionStart, selectionEnd, annotationMode, backend >>

nextPage ==
  /\ UNCHANGED << dashboard, edge, chat, uploadDialog >>
  /\ currentPage' = nextPageOf(currentPage, pageCount)
  /\ loadAnnotations(pdfId, currentPage')
  /\ out' = NoOutput
  /\ UNCHANGED << props, annotations, selection, annotationMode, backend >>

\* The parent selects another document: the same viewer gets new props.
selectPdf(d) ==
  /\ UNCHANGED << dashboard, edge, chat, uploadDialog >>
  /\ pdfId' = d.id
  /\ pageCount' = d.page_count
  /\ loadAnnotations(pdfId', currentPage)
  /\ out' = NoOutput
  /\ UNCHANGED << viewer, backend >>

\* ---------------------------------------------------------------- create, delete
\* createAnnotation saving against page 1 instead of currentPage.
createAnnotation_FirstPage(type, color) ==
  /\ UNCHANGED << dashboard, edge, chat, uploadDialog >>
  /\ showMenu /\ selectionBox # Null
  /\ out' = NoOutput
  /\ HasRoom
  /\ inflight' = Issue(InsertCall(pdfId, 1, type, color, selectionBox[1]))
  /\ issued' = issued + 1
  /\ UNCHANGED << props, viewer, backend >>

\* The creation menu is rendered only while showMenu && selectionBox; its
\* two buttons are the only callers of createAnnotation.
createAnnotation(type, color) ==
  /\ UNCHANGED << dashboard, edge, chat, uploadDialog >>
  /\ showMenu /\ selectionBox # Null
  /\ out' = NoOutput
  /\ IF selectionBox = Null
     THEN UNCHANGED network
     ELSE /\ HasRoom
          /\ inflight' = Issue(InsertCall(pdfId, currentPage, type, color,
                                          selectionBox[1]))
          /\ issued' = issued + 1
  /\ UNCHANGED << props, viewer, backend >>

\* The failure branch clearing the selection as the success branch does.
createAnnotationResume_ClearsOnFailure(c) ==
  /\ UNCHANGED << dashboard, edge, chat, uploadDialog >>
  /\ c \in Pending /\ c.kind = "insert" /\ c.stage # "sent"
  /\ inflight' = Remove(c)
  /\ UNCHANGED issued
  /\ selectionBox' = Null
  /\ showMenu' = FALSE
  /\ IF c.stage = "error"
     THEN out' = ToastCreateFailed /\ UNCHANGED annotations
     ELSE out' = ToastCreated /\ annotations' = Append(annotations, c.data[1])
  /\ UNCHANGED << props, currentPage, menuPosition, isSelecting,
                  selectionStart, selectionEnd, annotationMode, backend >>

\* The code after the await of the insert.
createAnnotationResume(c) ==
  /\ UNCHANGED << dashboard, edge, chat, uploadDialog >>
  /\ c \in Pending /\ c.kind = "insert" /\ c.stage # "sent"
  /\ inflight' = Remove(c)
  /\ UNCHANGED issued
  /\ IF c.stage = "error"
     THEN /\ out' = ToastCreateFailed
          /\ UNCHANGED << annotations, selectionBox, showMenu >>
     ELSE /\ annotations' = Append(annotations, c.data[1])
          /\ selectionBox' = Null
          /\ showMenu' = FALSE
          /\ out' = ToastCreated
  /\ UNCHANGED << props, currentPage, menuPosition, isSelecting,
                  selectionStart, selectionEnd, annotationMode, backend >>

\* Each rendered annotation carries a delete button for its own id.
deleteAnnotation(id) ==
  /\ UNCHANGED << dashboard, edge, chat, uploadDialog >>
  /\ \E i \in DOMAIN annotations : annotations[i].id = id
  /\ HasRoom
  /\ inflight' = Issue(DeleteCall(id))
  /\ issued' = issued + 1
  /\ out' = NoOutput
  /\ UNCHANGED << props, viewer, backend >>

\* The code after the await of the delete.
deleteAnnotationResume(c) ==
  /\ UNCHANGED << dashboard, edge, chat, uploadDialog >>
  /\ c \in Pending /\ c.kind = "delete" /\ c.stage # "sent"
  /\ inflight' = Remove(c)
  /\ UNCHANGED issued
  /\ IF c.stage = "error"
     THEN /\ out' = ToastDeleteFailed
          /\ UNCHANGED annotations
     ELSE /\ annotations' = WithoutId(annotations, c.row.id)
          /\ out' = ToastDeleted
  /\ UNCHANGED << props, currentPage, selection, annotationMode, backend >>

\* The code after the await of the read.
loadAnnotationsResume(c) ==
  /\ UNCHANGED << dashboard, edge, chat, uploadDialog >>
  /\ c \in Pending /\ c.kind = "list" /\ c.stage # "sent"
  /\ inflight' = Remove(c)
  /\ UNCHANGED issued
  /\ IF c.stage = "error"
     THEN /\ out' = ConsoleLoadError
          /\ UNCHANGED annotations
     ELSE /\ annotations' = c.data
          /\ out' = NoOutput
  /\ UNCHANGED << props, currentPage, selection, annotationMode, backend >>

\* ---------------------------------------------------------------- the store
\* select * from annotations where pdf_id = .. and page_number = ..
\* (no order by: the rows come back in any order)
storeSelect(c) ==
  /\ UNCHANGED << dashboard, edge, chat, uploadDialog >>
  /\ c \in Pending /\ c.kind = "list" /\ c.stage = "sent"
  /\ \E rows \in OrdersOf(RowsOf(c.row.pdf_id, c.row.page_number)) :
       inflight' = Replace(c, [c EXCEPT !.stage = "ok", !.data = rows])
  /\ UNCHANGED issued
  /\ out' = NoOutput
  /\ UNCHANGED << props, viewer, backend >>

\* insert .. select().single(): the table assigns the id and returns the row
storeInsert(c) ==
  /\ UNCHANGED << dashboard, edge, chat, uploadDialog >>
  /\ c \in Pending /\ c.kind = "insert" /\ c.stage = "sent"
  /\ LET row == [c.row EXCEPT !.id = nextId] IN
       /\ store' = store \cup {row}
       /\ inflight' = Replace(c, [c EXCEPT !.stage = "ok", !.data = << row >>])
  /\ nextId' = nextId + 1
  /\ UNCHANGED issued
  /\ out' = NoOutput
  /\ UNCHANGED << props, viewer >>

\* delete from annotations where id = ..
storeDelete(c) ==
  /\ UNCHANGED << dashboard, edge, chat, uploadDialog >>
  /\ c \in Pending /\ c.kind = "delete" /\ c.stage = "sent"
  /\ store' = { r \in store : r.id # c.row.id }
  /\ inflight' = Replace(c, [c EXCEPT !.stage = "ok"])
  /\ UNCHANGED issued
  /\ out' = NoOutput
  /\ UNCHANGED << props, viewer, nextId >>

\* Any call can come back with an error and leave the table as it was.
storeError(c) ==
  /\ UNCHANGED << dashboard, edge, chat, uploadDialog >>
  /\ c \in Pending /\ c.stage = "sent"
  /\ inflight' = Replace(c, [c EXCEPT !.stage = "error"])
  /\ UNCHANGED issued
  /\ out' = NoOutput
  /\ UNCHANGED << props, viewer, backend >>

\* ---------------------------------------------------------------- specification
UserStep ==
  \/ \E pt \in Points : handleMouseDown(pt)
  \/ \E pt \in Points : handleMouseMove(pt)
  \/ \E origin \in ViewportOrigins : handleMouseUp(origin)
  \/ setAnnotationMode(~annotationMode)
  \/ prevPage
  \/ nextPage
  \/ \E d \in Docs : selectPdf(d)
  \/ \E m \in MenuChoices : createAnnotation(m.type, m.color)
  \/ \E i \in DOMAIN annotations : deleteAnnotation(annotations[i].id)

ResumeStep ==
  \E c \in Pending :
    \/ loadAnnotationsResume(c)
    \/ createAnnotationResume(c)
    \/ deleteAnnotationResume(c)

StoreOkStep ==
  \E c \in Pending : storeSelect(c) \/ storeInsert(c) \/ storeDelete(c)

StoreErrorStep == \E c \in Pending : storeError(c)

Next == UserStep \/ ResumeStep \/ StoreOkStep \/ StoreErrorStep

Spec == Init /\ [][Next]_vars

\* The same program when no store call ever fails.
NextOk == UserStep \/ ResumeStep \/ StoreOkStep

SpecOk == Init /\ [][NextOk]_vars

\* The viewer from the moment a drag has been finalized: after mount, with
\* Annotate on, the pointer went down at (0,0), moved to (MaxCoord,MaxCoord)
\* and came up, so the creation menu is open on the rectangle; Annotate is
\* left on or has been switched off.  No pointer event follows, so every
\* pick in the menu belongs to this one finalized selection.
InitAfterDrag ==
  /\ NoDashboard /\ NoRequest /\ NoChat /\ NoUploadDialog
  /\ \E d \in Docs : pdfId = d.id /\ pageCount = d.page_count
  /\ currentPage = 1
  /\ annotations = << >>
  /\ isSelecting = FALSE
  /\ selectionStart = [x |-> 0, y |-> 0]
  /\ selectionEnd = [x |-> MaxCoord, y |-> MaxCoord]
  /\ selectionBox = Some(computeSelectionBox(selectionStart, selectionEnd))
  /\ \E origin \in ViewportOrigins :
       menuPosition = [x |-> selectionBox[1].x + origin.left,
                       y |-> selectionBox[1].y + origin.top]
  /\ showMenu = TRUE
  /\ annotationMode \in BOOLEAN
  /\ store = SeedRows
  /\ nextId = FirstNewId
  /\ inflight = SetToBag({ListCall(pdfId, 1)})
  /\ issued = 1
  /\ out = NoOutput

MenuStep ==
  \/ setAnnotationMode(~annotationMode)
  \/ prevPage
  \/ nextPage
  \/ \E d \in Docs : selectPdf(d)
  \/ \E m \in MenuChoices : createAnnotation(m.type, m.color)
  \/ \E i \in DOMAIN annotations : deleteAnnotation(annotations[i].id)

NextAfterDrag == MenuStep \/ ResumeStep \/ StoreOkStep \/ StoreErrorStep

SpecAfterDrag == InitAfterDrag /\ [][NextAfterDrag]_vars

\* ---------------------------------------------------------------- dashboard
\* DashboardClient (src/components/dashboard-client.tsx): the list of
\* documents, the selected one, the upload dialog, and the PdfViewer element
\* it renders for the selected document.

\* The rows of the user's pdf_files the server or an upload can deliver.
PdfFileRows ==
  { [id |-> "pdfA", name |-> "a.pdf", url |-> "/files/a.pdf",
     text_content |-> "a", page_count |-> MaxPages],
    [id |-> "pdfB", name |-> "b.pdf", url |-> "/files/b.pdf",
     text_content |-> "b", page_count |-> 1],
    [id |-> "pdfC", name |-> "c.pdf", url |-> "/files/c.pdf",
     text_content |-> "c", page_count |-> MaxPages + 1],
    [id |-> "pdfD", name |-> "d.pdf", url |-> "/files/d.pdf",
     text_content |-> "d", page_count |-> 1] }

\* The lists the server-side fetch can pass as initialPdfFiles.
InitialPdfFiles ==
  UNION { OrdersOf(S) :
            S \in { T \in SUBSET PdfFileRows : Cardinality(T) <= MaxInitialFiles } }

Listed == { pdfFiles[i] : i \in DOMAIN pdfFiles }

\* The viewer's own state, held still while the dashboard is followed.
NoViewer ==
  /\ pdfId = "" /\ pageCount = 0
  /\ currentPage = 1
  /\ annotations = << >>
  /\ showMenu = FALSE
  /\ menuPosition = [x |-> 0, y |-> 0]
  /\ isSelecting = FALSE
  /\ selectionStart = [x |-> 0, y |-> 0]
  /\ selectionEnd = [x |-> 0, y |-> 0]
  /\ selectionBox = Null
  /\ annotationMode = FALSE
  /\ store = {}
  /\ nextId = 1
  /\ inflight = EmptyBag
  /\ issued = 0
  /\ out = NoOutput

\* useState(initialPdfFiles), useState(initialPdfFiles[0] || null),
\* useState(false)
InitDashboard ==
  /\ \E files \in InitialPdfFiles :
       /\ pdfFiles = files
       /\ selectedPdf = IF files = << >> THEN Null ELSE Some(files[1])
  /\ isUploadOpen = FALSE
  /\ NoViewer /\ NoRequest /\ NoChat /\ NoUploadDialog

\* The Upload button (true) and the dialog's onOpenChange.
setIsUploadOpen(open) ==
  /\ isUploadOpen' = open
  /\ UNCHANGED << pdfFiles, selectedPdf >>
  /\ UNCHANGED << props, viewer, backend, network, out, edge, chat,
                  uploadDialog >>

\* The dialog reports the row of a finished upload.
handlePdfUploaded(newPdf) ==
  /\ pdfFiles' = << newPdf >> \o pdfFiles
  /\ selectedPdf' = Some(newPdf)
  /\ isUploadOpen' = FALSE
  /\ UNCHANGED << props, viewer, backend, network, out, edge, chat,
                  uploadDialog >>

\* A click on a document of the sidebar.
setSelectedPdf(pdf) ==
  /\ selectedPdf' = Some(pdf)
  /\ UNCHANGED << pdfFiles, isUploadOpen >>
  /\ UNCHANGED << props, viewer, backend, network, out, edge, chat,
                  uploadDialog >>

\* The props of the <PdfViewer> element the dashboard renders: Null when no
\* document is selected, else the record of the attributes the JSX gives.
PdfViewerElement ==
  IF selectedPdf = Null THEN Null
  ELSE Some([pdfUrl |-> selectedPdf[1].url, pdfName |-> selectedPdf[1].name])

NextDashboard ==
  \/ \E open \in BOOLEAN : setIsUploadOpen(open)
  \/ \E newPdf \in PdfFileRows \ Listed : handlePdfUploaded(newPdf)
  \/ \E i \in DOMAIN pdfFiles : setSelectedPdf(pdfFiles[i])

SpecDashboard == InitDashboard /\ [][NextDashboard]_vars

\* ---------------------------------------------------------------- middleware
\* updateSession (src/lib/supabase/middleware.ts), which src/middleware.ts
\* runs on every request.  A pathname is the sequence of its characters, so
\* that startsWith is the test on characters the code makes.
Root == << "/" >>
AuthPrefix == << "/", "a", "u", "t", "h" >>
LoginPath == AuthPrefix \o << "/", "l", "o", "g", "i", "n" >>

PathHeads ==
  { AuthPrefix,
    << "/", "d", "a", "s", "h", "b", "o", "a", "r", "d" >>,
    << "/", "a", "p", "i" >>,
    << "/", "a" >> }

PathTails ==
  { << >>,
    << "/" >>,
    << "/", "l", "o", "g", "i", "n" >>,
    << "/", "s", "i", "g", "n", "-", "u", "p" >>,
    << "o", "r", "s" >>,
    << "/", "a", "u", "t", "h" >> }

\* "/", "/auth", "/auth/login", "/auth/sign-up", "/authors", "/dashboard",
\* "/dashboard/auth", "/api/login", "/a", ...
Paths == {Root} \cup { head \o tail : head \in PathHeads, tail \in PathTails }

\* The session cookies a browser can send, and whose session each is.
SessionCookies == { "sb-ann", "sb-bob" }
OwnerOf(cookie) == IF cookie = "sb-ann" THEN "ann" ELSE "bob"

Requests ==
  [pathname : Paths, search : {"", "?page=2"},
   cookies : {Null} \cup { Some(c) : c \in SessionCookies }]

\* s.startsWith(prefix)
StartsWith(s, prefix) ==
  Len(s) >= Len(prefix) /\ SubSeq(s, 1, Len(prefix)) = prefix

\* What supabase.auth.getUser() can answer for the request's cookies: no user
\* without a session cookie or with one the auth server rejects; else the
\* session's user, with the cookies it handed to setAll (none, or the
\* refreshed session).
GetUserOutcomes(req) ==
  { [user |-> Null, cookiesToSet |-> << >>] }
    \cup
  IF req.cookies = Null THEN {}
  ELSE { [user |-> Some(OwnerOf(req.cookies[1])), cookiesToSet |-> set] :
           set \in { << >>, << req.cookies[1] >> } }

\* NextResponse.next({ request }), with the cookies setAll put on it.
NextResponse(cookiesToSet) ==
  [kind |-> "next", pathname |-> << >>, search |-> "", cookies |-> cookiesToSet]

\* NextResponse.redirect(url), url being request.nextUrl.clone() with its
\* pathname replaced.
RedirectResponse(req, pathname) ==
  [kind |-> "redirect", pathname |-> pathname, search |-> req.search,
   cookies |-> << >>]

\* The response updateSession returns when getUser() answered got.
updateSessionOf(req, got) ==
  IF got.user = Null /\ ~StartsWith(req.pathname, AuthPrefix)
       /\ req.pathname # Root
  THEN RedirectResponse(req, LoginPath)
  ELSE NextResponse(got.cookiesToSet)

updateSession(req) ==
  \E got \in GetUserOutcomes(req) :
    /\ request' = Some(req)
    /\ user' = got.user
    /\ response' = Some(updateSessionOf(req, got))
    /\ UNCHANGED << props, viewer, backend, network, out, dashboard, chat,
                    uploadDialog >>

middleware(req) == updateSession(req)

InitMiddleware ==
  NoRequest /\ NoViewer /\ NoDashboard /\ NoChat /\ NoUploadDialog

NextMiddleware == \E req \in Requests : middleware(req)

SpecMiddleware == InitMiddleware /\ [][NextMiddleware]_vars

\* ---------------------------------------------------------------- chat
\* ChatInterface (src/unnamed/part_006) beside the document the dashboard
\* has selected, and the POST handler of /api/chat (src/unnamed/part_008).
\* A message is [role, content]; content is Some(text), or Null where
\* JavaScript has undefined. The id of a message is read by no handler and
\* is left out. Texts are sequences of characters.

Chars == { " ", "q" }
Inputs == UNION { [1 .. n -> Chars] : n \in 0 .. MaxInputLen }

\* The texts generateText can return.
Texts == { << "x" >>, << "y" >> }

\* Whom supabase.auth.getUser() can return to the chat: nobody, or the
\* signed-in user.
ChatUser == "alice"
ChatGetUser == { Null, Some(ChatUser) }

\* String.prototype.trim
RECURSIVE trimStart(_)
trimStart(s) ==
  IF s # << >> /\ Head(s) = " " THEN trimStart(Tail(s)) ELSE s

RECURSIVE trimEnd(_)
trimEnd(s) ==
  IF s # << >> /\ s[Len(s)] = " " THEN trimEnd(SubSeq(s, 1, Len(s) - 1))
  ELSE s

trim(s) == trimEnd(trimStart(s))

\* Reading the property k of a parsed JSON object: Null when it is absent.
Field(obj, k) == IF k \in DOMAIN obj THEN Some(obj[k]) ELSE Null

\* The props <ChatInterface> gets from the dashboard.
ChatPdfId == selectedPdf[1].id
ChatPdfContent == selectedPdf[1].text_content

UserMessage(content) == [role |-> "user", content |-> Some(content)]
AssistantMessage(content) == [role |-> "assistant", content |-> content]

MessageRow(uid, pdf, role, content) ==
  [user_id |-> uid, pdf_id |-> pdf, role |-> role, content |-> content]

\* The body handleSubmit posts.
ChatRequestBody(text, history) ==
  [message |-> text, pdfContent |-> ChatPdfContent, pdfId |-> ChatPdfId,
   conversationHistory |-> history]

\* What the route handler knows of a request it has not handled.
NoHandler == [user |-> Null, read |-> Null, model |-> Null]

ErrorResponse(status) == [status |-> status, body |-> [error |-> "error"]]

\* The response of the POST handler to a request with this body, when
\* getUser() gives got and generateText, if it is called, throws (model =
\* Null) or returns the text model[1]. The handler destructures messages and
\* pdfContent from the body; messages.map on an absent messages throws
\* before generateText is called, and the catch answers 500.
POST(body, got, model) ==
  IF got = Null THEN ErrorResponse(401)
  ELSE IF Field(body, "messages") = Null THEN ErrorResponse(500)
  ELSE IF model = Null THEN ErrorResponse(500)
  ELSE [status |-> 200, body |-> [message |-> model[1]]]

\* Response.ok
Ok(resp) == 200 <= resp.status /\ resp.status <= 299

ChatIdle == [at |-> "done", data |-> << >>]

\* useState([]), useState(""), useState(false); the mount effect has called
\* loadMessages, whose getUser() is in flight.
InitChat ==
  /\ \E doc \in PdfFileRows :
       /\ pdfFiles = << doc >>
       /\ selectedPdf = Some(doc)
  /\ isUploadOpen = FALSE
  /\ messages = << >>
  /\ input = << >>
  /\ isLoading = FALSE
  /\ submit = Null
  /\ loadMessages = [at |-> "getUser", data |-> << >>]
  /\ messagesTable = << >>
  /\ chatToast = NoOutput
  /\ NoViewer /\ NoRequest /\ NoUploadDialog

ChatFrame == UNCHANGED << props, viewer, backend, network, out, dashboard,
                          edge, uploadDialog >>

\* loadMessages after getUser(): without a user it ends, with one it
\* issues the select.
loadMessagesAfterGetUser ==
  /\ loadMessages.at = "getUser"
  /\ \E got \in ChatGetUser :
       loadMessages' =
         [at |-> IF got = Null THEN "done" ELSE "select", data |-> << >>]
  /\ UNCHANGED << messages, input, isLoading, submit, messagesTable,
                  chatToast >>
  /\ ChatFrame

\* The messages table answers the select: the rows of (user, pdfId) in the
\* order of created_at, or an error.
messagesSelect ==
  /\ loadMessages.at = "select"
  /\ LET Mine(r) == r.user_id = ChatUser /\ r.pdf_id = ChatPdfId
     IN \/ loadMessages' =
             [at |-> "data", data |-> SelectSeq(messagesTable, Mine)]
        \/ loadMessages' = ChatIdle
  /\ UNCHANGED << messages, input, isLoading, submit, messagesTable,
                  chatToast >>
  /\ ChatFrame

\* setMessages(data.map(...))
loadMessagesResume ==
  /\ loadMessages.at = "data"
  /\ messages' =
       [i \in DOMAIN loadMessages.data |->
          [role |-> loadMessages.data[i].role,
           content |-> loadMessages.data[i].content]]
  /\ loadMessages' = ChatIdle
  /\ UNCHANGED << input, isLoading, submit, messagesTable, chatToast >>
  /\ ChatFrame

\* onChange of the text field, which is disabled while isLoading.
setInput(v) ==
  /\ ~isLoading
  /\ input' = v
  /\ UNCHANGED << messages, isLoading, submit, loadMessages, messagesTable,
                  chatToast >>
  /\ ChatFrame

\* handleSubmit up to its fetch. The form is submitted from the text field
\* or the send button, both disabled while isLoading.
handleSubmit ==
  /\ ~isLoading
  /\ Len(messages) + 2 <= MaxMessages
  /\ IF trim(input) = << >>
     THEN UNCHANGED chat
     ELSE /\ messages' = Append(messages, UserMessage(input))
          /\ input' = << >>
          /\ isLoading' = TRUE
          /\ submit' = Some([at |-> "fetch",
                             input |-> input,
                             pdfId |-> ChatPdfId,
                             body |-> ChatRequestBody(input, messages),
                             handler |-> NoHandler,
                             response |-> ErrorResponse(0),
                             data |-> Null,
                             user |-> Null])
          /\ UNCHANGED << loadMessages, messagesTable, chatToast >>
  /\ ChatFrame

\* The route handler serves the request of handleSubmit.
POSTStep ==
  /\ submit # Null /\ submit[1].at = "fetch"
  /\ \E got \in ChatGetUser, model \in { Null } \cup { Some(t) : t \in Texts } :
       submit' =
         Some([submit[1] EXCEPT
                 !.at = "response",
                 !.handler = [user |-> got,
                              read |-> Field(submit[1].body, "messages"),
                              model |-> model],
                 !.response = POST(submit[1].body, got, model)])
  /\ UNCHANGED << messages, input, isLoading, loadMessages, messagesTable,
                  chatToast >>
  /\ ChatFrame

\* The responses an endpoint, whatever it is, can give to the fetch.
EndpointResponses ==
  { ErrorResponse(500) }
    \cup { [status |-> 200, body |-> [response |-> t]] : t \in Texts }
    \cup { [status |-> 200, body |-> [message |-> t]] : t \in Texts }

endpointAnswers ==
  /\ submit # Null /\ submit[1].at = "fetch"
  /\ \E resp \in EndpointResponses :
       submit' = Some([submit[1] EXCEPT !.at = "response", !.response = resp])
  /\ UNCHANGED << messages, input, isLoading, loadMessages, messagesTable,
                  chatToast >>
  /\ ChatFrame

\* catch and finally of handleSubmit.
handleSubmitCatch(message) ==
  /\ chatToast' = message
  /\ isLoading' = FALSE
  /\ submit' = Null

\* fetch rejects (the network is down): catch, finally.
fetchRejects ==
  /\ submit # Null /\ submit[1].at = "fetch"
  /\ handleSubmitCatch("Failed to fetch")
  /\ UNCHANGED << messages, input, loadMessages, messagesTable >>
  /\ ChatFrame

\* handleSubmit from the response of its fetch to its getUser().
handleSubmitAfterFetch ==
  /\ submit # Null /\ submit[1].at = "response"
  /\ IF ~Ok(submit[1].response)
     THEN /\ handleSubmitCatch("Failed to get AI response")
          /\ UNCHANGED messages
     ELSE LET data == submit[1].response.body
          IN /\ messages' =
                  Append(messages, AssistantMessage(Field(data, "response")))
             /\ submit' = Some([submit[1] EXCEPT !.at = "getUser",
                                                 !.data = Some(data)])
             /\ UNCHANGED << isLoading, chatToast >>
  /\ UNCHANGED << input, loadMessages, messagesTable >>
  /\ ChatFrame

\* handleSubmit after its getUser(): without a user nothing is stored.
handleSubmitAfterGetUser ==
  /\ submit # Null /\ submit[1].at = "getUser"
  /\ \E got \in ChatGetUser :
       IF got = Null
       THEN /\ isLoading' = FALSE
            /\ submit' = Null
       ELSE /\ submit' = Some([submit[1] EXCEPT !.at = "insertUser",
                                                !.user = got])
            /\ UNCHANGED isLoading
  /\ UNCHANGED << messages, input, loadMessages, messagesTable, chatToast >>
  /\ ChatFrame

\* The insert of the user message is answered, its result is not read, and
\* handleSubmit issues the insert of the reply.
insertUserMessage ==
  /\ submit # Null /\ submit[1].at = "insertUser"
  /\ \/ messagesTable' =
          Append(messagesTable,
                 MessageRow(submit[1].user[1], submit[1].pdfId, "user",
                            Some(submit[1].input)))
     \/ UNCHANGED messagesTable
  /\ submit' = Some([submit[1] EXCEPT !.at = "insertAssistant"])
  /\ UNCHANGED << messages, input, isLoading, loadMessages, chatToast >>
  /\ ChatFrame

\* The insert of the reply is answered, its result is not read; finally.
insertAssistantMessage ==
  /\ submit # Null /\ submit[1].at = "insertAssistant"
  /\ \/ messagesTable' =
          Append(messagesTable,
                 MessageRow(submit[1].user[1], submit[1].pdfId, "assistant",
                            Field(submit[1].data[1], "response")))
     \/ UNCHANGED messagesTable
  /\ isLoading' = FALSE
  /\ submit' = Null
  /\ UNCHANGED << messages, input, loadMessages, chatToast >>
  /\ ChatFrame

ChatUserStep ==
  \/ \E v \in Inputs : setInput(v)
  \/ handleSubmit

ChatLoadStep ==
  \/ loadMessagesAfterGetUser
  \/ messagesSelect
  \/ loadMessagesResume

\* ChatInterface against the route handler of this repository. POST answers
\* no body of handleSubmit with a 2xx status (C21_NeverAnswered), so the
\* steps of handleSubmit after an ok response are not among the steps.
NextChat ==
  \/ ChatUserStep
  \/ ChatLoadStep
  \/ POSTStep
  \/ fetchRejects
  \/ handleSubmitAfterFetch

SpecChat == InitChat /\ [][NextChat]_vars

\* ChatInterface against an endpoint that can answer anything, each await
\* of handleSubmit and loadMessages settling in the end.
ChatSettles ==
  \/ ChatLoadStep
  \/ endpointAnswers
  \/ fetchRejects
  \/ handleSubmitAfterFetch
  \/ handleSubmitAfterGetUser
  \/ insertUserMessage
  \/ insertAssistantMessage

NextChatLive == ChatUserStep \/ ChatSettles

SpecChatLive ==
  InitChat /\ [][NextChatLive]_vars /\ WF_vars(ChatSettles)

\* ---------------------------------------------------------------- upload
\* PdfUploadDialog (src/unnamed/part_005) under the dashboard, which gives it
\* open = isUploadOpen, onOpenChange = setIsUploadOpen and onPdfUploaded =
\* handlePdfUploaded. A file name is the sequence of its dot-separated parts.

PdfType == "application/pdf"

\* The files the user can choose.
UploadFiles ==
  { [name |-> << "a", "pdf" >>, type |-> PdfType],
    [name |-> << "scan" >>, type |-> PdfType],
    [name |-> << "notes", "txt" >>, type |-> "text/plain"] }

UploadUser == "alice"
UploadGetUser == { Null, Some(UploadUser) }

\* What /api/extract-text can answer with an ok status.
Extractions == { [text |-> "t", pageCount |-> n] : n \in { 1, MaxPages } }

\* file.name.split(".").pop()
fileExt(name) == name[Len(name)]

\* `${user.id}/${Date.now()}.${fileExt}`
fileName(uid, time, ext) == [folder |-> uid, time |-> time, ext |-> ext]

\* getPublicUrl(fileName)
publicUrl(object) == [bucket |-> "pdfs", object |-> object]

NotStarted ==
  [user |-> Null, fileName |-> Null, text |-> Null, pageCount |-> Null]

\* useState(null), useState(false), useState(null), under a dashboard that
\* lists nothing.
InitUpload ==
  /\ NoUploadDialog /\ NoDashboard
  /\ NoViewer /\ NoRequest /\ NoChat

UploadFrame == UNCHANGED << props, viewer, backend, network, out, edge, chat >>

\* onChange of the file input, which is in the open dialog and is disabled
\* while isUploading; chosen is Null when the selection was emptied.
handleFileChange(chosen) ==
  /\ isUploadOpen /\ ~isUploading
  /\ IF chosen # Null /\ chosen[1].type = PdfType
     THEN file' = chosen /\ error' = Null
     ELSE file' = Null /\ error' = Some("Please select a valid PDF file")
  /\ UNCHANGED << isUploading, upload, bucket, pdf_files, now, uploadToast >>
  /\ UNCHANGED dashboard
  /\ UploadFrame

\* handleUpload up to its getUser(). The Upload button is in the open
\* dialog and is disabled without a file and while isUploading.
handleUpload ==
  /\ isUploadOpen /\ ~isUploading
  /\ now < MaxUploads
  /\ IF file = Null
     THEN UNCHANGED uploadDialog
     ELSE /\ isUploading' = TRUE
          /\ error' = Null
          /\ upload' = Some(NotStarted @@ [at |-> "getUser", file |-> file[1],
                                            done |-> << >>])
          /\ UNCHANGED << file, bucket, pdf_files, now, uploadToast >>
  /\ UNCHANGED dashboard
  /\ UploadFrame

\* catch without finally: isUploading stays as it is.
handleUploadCatch_NoFinally(message) ==
  /\ error' = Some(message)
  /\ uploadToast' = message
  /\ UNCHANGED isUploading
  /\ upload' = Null
  /\ UNCHANGED << file, bucket, pdf_files, now >>
  /\ UNCHANGED dashboard

\* catch and finally of handleUpload.
handleUploadCatch(message) ==
  /\ error' = Some(message)
  /\ uploadToast' = message
  /\ isUploading' = FALSE
  /\ upload' = Null
  /\ UNCHANGED << file, bucket, pdf_files, now >>
  /\ UNCHANGED dashboard

\* The step of handleUpload that has succeeded is noted and the next call is
\* issued.
Proceed(step, next, locals) ==
  /\ upload' = Some(locals @@ [at |-> next, file |-> upload[1].file,
                                done |-> Append(upload[1].done, step)])
  /\ UNCHANGED << file, isUploading, error, uploadToast >>
  /\ UNCHANGED dashboard

\* After getUser(): without a user it throws, with one it names the object
\* after the user and the clock and issues the storage upload.
handleUploadAfterGetUser ==
  /\ upload # Null /\ upload[1].at = "getUser"
  /\ \E got \in UploadGetUser :
       IF got = Null
       THEN handleUploadCatch("Not authenticated")
       ELSE /\ Proceed("getUser", "upload",
                       [NotStarted EXCEPT
                          !.user = got,
                          !.fileName =
                             Some(fileName(got[1], now + 1,
                                           fileExt(upload[1].file.name)))])
            /\ now' = now + 1
            /\ UNCHANGED << bucket, pdf_files >>
  /\ UploadFrame

\* After the storage upload: an error is thrown, else the object is stored
\* and the file is posted to /api/extract-text.
handleUploadAfterStorage ==
  /\ upload # Null /\ upload[1].at = "upload"
  /\ \/ handleUploadCatch("upload failed")
     \/ /\ bucket' = bucket \cup { upload[1].fileName[1] }
        /\ Proceed("upload", "extract",
                   [NotStarted EXCEPT !.user = upload[1].user,
                                      !.fileName = upload[1].fileName])
        /\ UNCHANGED << pdf_files, now >>
  /\ UploadFrame

\* After the extraction: the fetch rejects, or answers with a status that is
\* not ok, or answers with the text and the page count, and then the insert
\* into pdf_files is issued.
handleUploadAfterExtract ==
  /\ upload # Null /\ upload[1].at = "extract"
  /\ \/ handleUploadCatch("Failed to fetch")
     \/ handleUploadCatch("Failed to extract text from PDF")
     \/ \E got \in Extractions :
          /\ Proceed("extract", "insert",
                     [user |-> upload[1].user,
                      fileName |-> upload[1].fileName,
                      text |-> Some(got.text),
                      pageCount |-> Some(got.pageCount)])
          /\ UNCHANGED << bucket, pdf_files, now >>
  /\ UploadFrame

\* The row the insert returns.
pdfRecord(u) ==
  [id |-> u.fileName[1].time,
   user_id |-> u.user[1],
   name |-> u.file.name,
   url |-> publicUrl(u.fileName[1]),
   text_content |-> u.text[1],
   page_count |-> u.pageCount[1]]

\* After the insert: an error is thrown, else the row is stored, the parent
\* is told (handlePdfUploaded puts the row first, selects it and closes the
\* dialog), onOpenChange(false), setFile(null), finally.
handleUploadAfterInsert ==
  /\ upload # Null /\ upload[1].at = "insert"
  /\ \/ handleUploadCatch("Failed to upload PDF")
     \/ /\ pdf_files' = pdf_files \cup { pdfRecord(upload[1]) }
        /\ uploadToast' = "PDF uploaded successfully!"
        /\ pdfFiles' = << pdfRecord(upload[1]) >> \o pdfFiles
        /\ selectedPdf' = Some(pdfRecord(upload[1]))
        /\ isUploadOpen' = FALSE
        /\ file' = Null
        /\ isUploading' = FALSE
        /\ upload' = Null
        /\ UNCHANGED << error, bucket, now >>
  /\ UploadFrame

NextUpload ==
  \/ \E open \in BOOLEAN : setIsUploadOpen(open)
  \/ \E chosen \in { Null } \cup { Some(f) : f \in UploadFiles } :
       handleFileChange(chosen)
  \/ handleUpload
  \/ handleUploadAfterGetUser
  \/ handleUploadAfterStorage
  \/ handleUploadAfterExtract
  \/ handleUploadAfterInsert

SpecUpload == InitUpload /\ [][NextUpload]_vars

\* ---------------------------------------------------------------- properties
\* The step resumes call c: the code after its await runs and c leaves the bag.
Resumes(c) == c \in Pending /\ c.stage # "sent" /\ inflight' = Remove(c)

\* The call is a read for the pair (pdfId, currentPage) now on screen.
ForCurrentPage(c) == c.row.pdf_id = pdfId /\ c.row.page_number = currentPage

\* The rows of the visible set, as a set.
Visible == { annotations[i] : i \in DOMAIN annotations }

\* C1: out-of-order read resolution.  When the read for a superseded page p
\* resolves after the read for the current page p' has (no read for the
\* current page is still awaited), the response for p is discarded: the
\* visible set stays what it was.
C1_StaleReadDiscarded ==
  [][\A c \in Pending :
       ( /\ c.kind = "list" /\ c.stage = "ok" /\ Resumes(c)
         /\ c.row.page_number # currentPage
         /\ \A d \in Pending : d.kind = "list" => ~ForCurrentPage(d) )
       => annotations' = annotations]_vars

\* C2: when every store call succeeds, once no store call is in flight the
\* visible set holds exactly the rows the table holds for
\* (pdfId, currentPage), each once.
C2_ViewMatchesStore ==
  inflight = EmptyBag =>
    /\ Visible = RowsOf(pdfId, currentPage)
    /\ Len(annotations) = Cardinality(Visible)

\* C3: when the read for the current page comes back with an error, the
\* visible set becomes empty.
C3_FailedListEmptiesView ==
  [][\A c \in Pending :
       (c.kind = "list" /\ c.stage = "error" /\ Resumes(c) /\ ForCurrentPage(c))
       => annotations' = << >>]_vars

\* The step resumes a createAnnotation whose insert failed / succeeded.
CreateFails(c) == c.kind = "insert" /\ c.stage = "error" /\ Resumes(c)
CreateSucceeds(c) == c.kind = "insert" /\ c.stage = "ok" /\ Resumes(c)

\* The step issues the call c: one more copy of c awaits its response.
Issues(c) == CopiesIn(c, inflight') = CopiesIn(c, inflight) + 1

\* C4 as stated: when the insert fails, the visible set is what it was, the
\* selection rectangle is unchanged and non-null, and the creation menu is
\* still open.
C4_FailedCreateKeepsSelectionOpen ==
  [][\A c \in Pending :
       CreateFails(c) =>
         /\ annotations' = annotations
         /\ selectionBox' = selectionBox /\ selectionBox' # Null
         /\ showMenu /\ showMenu']_vars

\* C4 amended: handling a failed insert changes nothing in the viewer: the
\* visible set, the selection rectangle, the menu and every other piece of
\* viewer state are what they were just before the failure was handled, and
\* the failure toast is shown.  The rectangle is non-null and the menu open
\* afterwards exactly when they were so just before.
C4_FailedCreateChangesNothing ==
  [][\A c \in Pending :
       CreateFails(c) =>
         /\ annotations' = annotations
         /\ selectionBox' = selectionBox
         /\ showMenu' = showMenu
         /\ UNCHANGED << props, viewer >>
         /\ out' = ToastCreateFailed]_vars

\* A failed insert has just been handled with the rectangle and menu intact.
C4_Witness ==
  out = ToastCreateFailed /\ selectionBox # Null /\ showMenu

\* C5: createAnnotation issues an insert only with a non-null selection
\* rectangle, exactly one per call, carrying pdf_id = pdfId, page_number =
\* currentPage, the chosen type and color and position = the rectangle; with
\* a null rectangle no insert is issued.  When the insert succeeds, the row
\* the store returned, with the id the store assigned, is appended to the
\* visible set, the rectangle becomes null and the menu is closed.
C5_CreateAnnotation ==
  [][/\ \A c \in BagToSet(inflight') :
          (c.kind = "insert" /\ c.stage = "sent"
             /\ CopiesIn(c, inflight') > CopiesIn(c, inflight))
          => /\ selectionBox # Null
             /\ Issues(c)
             /\ BagCardinality(inflight') = BagCardinality(inflight) + 1
             /\ c.row.pdf_id = pdfId
             /\ c.row.page_number = currentPage
             /\ c.row.position = selectionBox[1]
             /\ [type |-> c.row.type, color |-> c.row.color] \in MenuChoices
             /\ UNCHANGED << props, viewer, backend >>
     /\ \A c \in Pending :
          CreateSucceeds(c)
          => /\ Len(c.data) = 1
             /\ c.data[1] = [c.row EXCEPT !.id = c.data[1].id]
             /\ c.data[1].id >= FirstNewId
             /\ annotations' = annotations \o << c.data[1] >>
             /\ selectionBox' = Null
             /\ showMenu' = FALSE]_vars

\* An insert has just succeeded: its row, with a store-assigned id, is the
\* last entry of the visible set and the selection is cleared.
C5_Witness ==
  /\ out = ToastCreated
  /\ annotations # << >>
  /\ annotations[Len(annotations)].id >= FirstNewId
  /\ selectionBox = Null /\ ~showMenu

\* The entries of seq whose id is not id, in their order.
KeepOthers(seq, id) ==
  LET Other(a) == a.id # id IN SelectSeq(seq, Other)

C7_DegenerateDragArmsNoMenu ==
  [][(isSelecting /\ ~isSelecting' /\ selectionEnd = selectionStart)
       => (~showMenu' /\ selectionBox' = Null)]_vars

\* C8: computeSelectionBox(start, end) has x = min(start.x, end.x),
\* y = min(start.y, end.y), width = |end.x - start.x|,
\* height = |end.y - start.y|, never a negative side, and the same result
\* with start and end swapped: for every pair of points of the viewport,
\* and for the rectangle the viewer holds during and after a drag.
IsBoxOf(b, start, end) ==
  /\ b.x \in {start.x, end.x} /\ b.x <= start.x /\ b.x <= end.x
  /\ b.y \in {start.y, end.y} /\ b.y <= start.y /\ b.y <= end.y
  /\ b.width \in {end.x - start.x, start.x - end.x} /\ b.width >= 0
  /\ b.height \in {end.y - start.y, start.y - end.y} /\ b.height >= 0

BoxOfEveryPair ==
  \A start, end \in AllPoints :
    /\ IsBoxOf(computeSelectionBox(start, end), start, end)
    /\ computeSelectionBox(start, end) = computeSelectionBox(end, start)

C8_SelectionBoxNormalized ==
  /\ BoxOfEveryPair
  /\ selectionBox # Null =>
       /\ IsBoxOf(selectionBox[1], selectionStart, selectionEnd)
       /\ selectionBox[1] = computeSelectionBox(selectionEnd, selectionStart)

\* A drag towards the origin: the end point lies before the start point.
C8_Witness ==
  /\ selectionBox # Null
  /\ selectionEnd.x < selectionStart.x /\ selectionEnd.y < selectionStart.y
  /\ selectionBox[1].width > 0

\* C9: with the current page inside [1, pageCount], prevPage at page 1
\* leaves currentPage = 1, nextPage at page pageCount leaves currentPage =
\* pageCount, and otherwise each moves by exactly one page; no step takes the
\* current page from inside the range to outside it.
InRange == 1 <= currentPage /\ currentPage <= pageCount

C9_NavigationClamps ==
  [][InRange =>
       /\ prevPage =>
            currentPage' = IF currentPage = 1 THEN 1 ELSE currentPage - 1
       /\ nextPage =>
            currentPage' = IF currentPage = pageCount THEN pageCount
                           ELSE currentPage + 1
       /\ currentPage' # currentPage =>
            /\ currentPage' \in {currentPage - 1, currentPage + 1}
            /\ 1 <= currentPage' /\ currentPage' <= pageCount]_vars

\* nextPage has moved to the last page of a document with several pages.
C9_Witness ==
  /\ InRange /\ currentPage = pageCount /\ currentPage > 1
  /\ \E c \in Pending : c.kind = "list" /\ ForCurrentPage(c)

\* C10: in every state, no annotation of another page or document is in the
\* visible set: changing the current page empties it of the previous page's
\* annotations before the new read resolves.
C10_VisibleSetIsCurrentPage ==
  \A i \in DOMAIN annotations :
    annotations[i].page_number = currentPage /\ annotations[i].pdf_id = pdfId

\* C11: navigating to the page already shown (prevPage at page 1, nextPage at
\* the last page) is a no-op: the current page, the visible set, the store
\* and the reads in flight are what they were, and no read is issued.  The
\* states after one such navigation and after two are therefore the same,
\* and so are the visible sets once every read has resolved.  A prevPage or
\* nextPage that has reached its bound stays there when repeated.
C11_RepeatedNavigationIsNoOp ==
  [][/\ ((prevPage /\ currentPage = 1) \/ (nextPage /\ currentPage = pageCount))
          => UNCHANGED << props, viewer, backend, network >>
     /\ (prevPage /\ currentPage' = 1) => prevPageOf(currentPage') = currentPage'
     /\ (nextPage /\ currentPage' = pageCount)
          => nextPageOf(currentPage', pageCount') = currentPage']_vars

\* The last page of a document with several pages is shown, its read has
\* resolved and no read is awaited: nextPage is a navigation to the same page.
C11_Witness ==
  /\ currentPage = pageCount /\ pageCount > 1
  /\ inflight = EmptyBag /\ issued = 2
  /\ Visible = RowsOf(pdfId, currentPage)

\* C12: a change of pdfId reloads as a change of page does.  When the read
\* issued for the previous document resolves last (it succeeded and no other
\* read is in flight), the visible set afterwards holds no annotation of the
\* previous document: every visible row belongs to pdfId.
C12_DocumentChangeReloads ==
  [][\A c \in Pending :
       ( /\ c.kind = "list" /\ c.stage = "ok" /\ Resumes(c)
         /\ c.row.pdf_id # pdfId
         /\ { d \in Pending : d.kind = "list" } = {c}
         /\ CopiesIn(c, inflight) = 1 )
       => \A i \in DOMAIN annotations' : annotations'[i].pdf_id = pdfId]_vars

\* C13: an annotation is persisted once.  From a finalized selection (no new
\* drag follows it) a pick in the creation menu issues an insert only when no
\* insert is already awaiting its response: a second pick while the first
\* insert is in flight issues nothing.  The picks are taken with Annotate
\* off, when a press on a menu button cannot start a new drag.
C13_PersistedOnce ==
  [][\A c \in BagToSet(inflight') :
       ( /\ c.kind = "insert" /\ c.stage = "sent"
         /\ CopiesIn(c, inflight') > CopiesIn(c, inflight)
         /\ ~annotationMode )
       => \A d \in Pending : d.kind # "insert"]_vars

\* The failure notifications the viewer shows the user: its toast.error calls.
UserVisibleFailures == { ToastCreateFailed, ToastDeleteFailed }

\* C14: every store error becomes a user-visible failure notification: the
\* step that handles a failed list, insert or delete shows one.
C14_StoreErrorNotifiesUser ==
  [][\A c \in Pending :
       (c.stage = "error" /\ Resumes(c)) => out' \in UserVisibleFailures]_vars

\* C15: handleMouseDown with annotation mode off changes no state; with
\* annotation mode on it sets isSelecting, sets selectionStart and
\* selectionEnd both to the pointer position, sets the selection rectangle to
\* null and closes the creation menu.  A drag starts in no other way.
C15_BeginSelection ==
  [][/\ \A pt \in Points :
          handleMouseDown(pt) =>
            IF ~annotationMode
            THEN UNCHANGED << props, viewer, backend, network >>
            ELSE /\ isSelecting' = TRUE
                 /\ selectionStart' = pt /\ selectionEnd' = pt
                 /\ selectionBox' = Null
                 /\ showMenu' = FALSE
     /\ (~isSelecting /\ isSelecting') =>
          /\ annotationMode
          /\ selectionEnd' = selectionStart'
          /\ selectionBox' = Null
          /\ showMenu' = FALSE]_vars

\* A new drag has started at (MaxCoord, MaxCoord) after an earlier drag had
\* opened the creation menu: the rectangle is null and the menu closed.
C15_Witness ==
  /\ isSelecting /\ annotationMode
  /\ selectionStart = [x |-> MaxCoord, y |-> MaxCoord]
  /\ selectionEnd = selectionStart
  /\ selectionBox = Null /\ ~showMenu
  /\ menuPosition # [x |-> 0, y |-> 0]

\* C16: handleMouseMove and handleMouseUp act only during a drag.  With
\* isSelecting false each changes no state (rectangle, end point, menu and
\* menu position included); with isSelecting true handleMouseMove sets
\* selectionEnd to the pointer position and the rectangle to
\* computeSelectionBox(selectionStart, selectionEnd), and leaves
\* selectionStart alone: it is the point the handleMouseDown that started
\* the drag recorded, as only a step that starts a drag changes it.
C16_UpdateAndEndOnlyWhileDragging ==
  [][/\ \A pt \in Points :
          handleMouseMove(pt) =>
            IF ~isSelecting
            THEN UNCHANGED << props, viewer, backend, network >>
            ELSE /\ selectionEnd' = pt
                 /\ selectionStart' = selectionStart
                 /\ selectionBox'
                      = Some(computeSelectionBox(selectionStart', selectionEnd'))
     /\ \A origin \in ViewportOrigins :
          (handleMouseUp(origin) /\ ~isSelecting)
            => UNCHANGED << props, viewer, backend, network >>
     /\ (~isSelecting
           /\ (selectionEnd' # selectionEnd \/ selectionBox' # selectionBox))
          => (isSelecting' \/ \E c \in Pending : CreateSucceeds(c))
     /\ selectionStart' # selectionStart =>
          (isSelecting' /\ selectionEnd' = selectionStart'
             /\ selectionBox' = Null)]_vars

\* A drag is under way and the pointer has moved off its start point: the
\* rectangle spans the two points.
C16_Witness ==
  /\ isSelecting
  /\ selectionEnd # selectionStart
  /\ selectionBox = Some(computeSelectionBox(selectionStart, selectionEnd))
  /\ selectionBox[1].width = MaxCoord

\* The selection state is empty: no rectangle, no drag, no menu.
SelectionEmpty == selectionBox = Null /\ ~isSelecting /\ ~showMenu

\* The step starts a new drag.
StartsDrag ==
  isSelecting' /\ selectionEnd' = selectionStart' /\ selectionBox' = Null
    /\ ~showMenu'

\* The step navigates, toggles annotation mode, changes the document, issues
\* or handles a read, or issues or handles a delete.
LeavesSelectionAlone ==
  \/ prevPage \/ nextPage
  \/ currentPage' # currentPage
  \/ annotationMode' # annotationMode
  \/ pdfId' # pdfId
  \/ \E c \in Pending : c.kind \in {"list", "delete"} /\ Resumes(c)
  \/ \E c \in BagToSet(inflight') :
       c.kind \in {"list", "delete"} /\ c.stage = "sent" /\ Issues(c)

\* C17: the selection state starts empty; the rectangle goes from non-null
\* to null only when a new drag starts or an annotation has been created
\* (the viewer has no other way of dismissing the menu); navigation,
\* annotation-mode toggling, reloads and deletes leave the rectangle, the
\* drag flag and the menu (every part of the selection state) unchanged.
C17_SelectionLifecycle ==
  /\ SelectionEmpty
  /\ [][/\ (selectionBox # Null /\ selectionBox' = Null)
             => (StartsDrag \/ \E c \in Pending : CreateSucceeds(c))
        /\ LeavesSelectionAlone => UNCHANGED selection]_vars

\* With a finalized rectangle and its menu open, the user has switched
\* annotation mode off and moved to a later page, whose read is awaited.
C17_Witness ==
  /\ selectionBox # Null /\ showMenu /\ ~isSelecting
  /\ ~annotationMode
  /\ currentPage > 1
  /\ \E c \in Pending : c.kind = "list" /\ c.stage = "sent" /\ ForCurrentPage(c)

\* The ids the table has assigned so far.
AssignedIds == 1 .. (nextId - 1)

\* C18: a delete is only issued for a store-confirmed id.  Every id in the
\* visible set is one the table assigned; a delete is issued only for an id
\* that is in the visible set at that moment; and no delete is issued for an
\* annotation whose createAnnotation has not yet resolved (its insert has
\* been served but the code after the await has not run).
C18_DeleteOnlyConfirmedIds ==
  /\ [](\A i \in DOMAIN annotations : annotations[i].id \in AssignedIds)
  /\ [][\A c \in BagToSet(inflight') :
          (c.kind = "delete" /\ c.stage = "sent" /\ Issues(c)) =>
            /\ \E i \in DOMAIN annotations : annotations[i].id = c.row.id
            /\ c.row.id \in AssignedIds
            /\ ~ \E d \in Pending :
                   d.kind = "insert" /\ d.stage = "ok"
                     /\ d.data[1].id = c.row.id]_vars

\* C19: whenever the dashboard has a selected document, the PdfViewer it
\* renders is given pdfId = selectedPdf.id and pageCount =
\* selectedPdf.page_count besides the URL and the name.
C19_ViewerGetsDocumentContext ==
  selectedPdf # Null =>
    /\ PdfViewerElement # Null
    /\ PdfViewerElement[1].pdfUrl = selectedPdf[1].url
    /\ PdfViewerElement[1].pdfName = selectedPdf[1].name
    /\ "pdfId" \in DOMAIN PdfViewerElement[1]
    /\ PdfViewerElement[1].pdfId = selectedPdf[1].id
    /\ "pageCount" \in DOMAIN PdfViewerElement[1]
    /\ PdfViewerElement[1].pageCount = selectedPdf[1].page_count

\* The auth pages: "/auth" and the pages below it.
IsAuthPage(pathname) ==
  pathname = AuthPrefix \/ StartsWith(pathname, AuthPrefix \o << "/" >>)

\* C20: a request without an authenticated user is redirected to
\* /auth/login for every path other than "/" and the auth pages; a request
\* with an authenticated user, and an unauthenticated request to "/" or to an
\* auth page, is not redirected and gets the pass-through response.
C20_AccessControl ==
  request # Null =>
    IF user = Null /\ request[1].pathname # Root
         /\ ~IsAuthPage(request[1].pathname)
    THEN /\ response[1].kind = "redirect"
         /\ response[1].pathname = LoginPath
    ELSE response[1].kind = "next"

\* C24: a create response never lands on another page.  When the insert
\* issued on page p succeeds after the user has moved to another page, the
\* returned row (page_number = p) is not added to the visible set.
C24_CreateResponseStaysOnItsPage ==
  [][\A c \in Pending :
       (CreateSucceeds(c) /\ c.row.page_number # currentPage)
         => annotations' = annotations]_vars

\* C25: in every state 1 <= currentPage <= pageCount, also after the props
\* change to a document with fewer pages than the current page.
C25_CurrentPageInBounds ==
  1 <= currentPage /\ currentPage <= pageCount

\* C26: the visible set never holds two entries with the same id.
C26_VisibleIdsDistinct ==
  \A i, j \in DOMAIN annotations :
    i # j => annotations[i].id # annotations[j].id

\* C27: an annotation is saved to the page on which its rectangle was drawn.
\* From the state a finalized drag leaves (the drag ended on page 1), every
\* insert issued carries page_number = 1: the finalized selection is not
\* saved against a page the user has moved to since.
C27_SavedWhereDrawn ==
  [][\A c \in BagToSet(inflight') :
       (c.kind = "insert" /\ c.stage = "sent" /\ Issues(c))
         => c.row.page_number = 1]_vars

\* C28: annotation mode gates the whole gesture: in every state isSelecting
\* implies annotationMode, and the selection rectangle and the creation menu
\* change only in steps taken with annotation mode on.
C28_AnnotationModeGatesGesture ==
  /\ [](isSelecting => annotationMode)
  /\ [][(selectionBox' # selectionBox \/ showMenu' # showMenu)
          => annotationMode]_vars

\* C29: in every state showMenu implies a non-null selection rectangle and
\* no drag under way; the creation menu, rendered while showMenu and the
\* rectangle is non-null, therefore always has a rectangle to persist.
C29_MenuConsistency ==
  showMenu => (selectionBox # Null /\ ~isSelecting)

\* The menu is open on a finalized rectangle and a pick from it has issued
\* an insert carrying that rectangle.
C29_Witness ==
  /\ showMenu /\ selectionBox # Null /\ ~isSelecting
  /\ \E c \in Pending :
       c.kind = "insert" /\ c.stage = "sent"
         /\ c.row.position = selectionBox[1]

\* C21: when an authenticated user's non-empty message is submitted and the
\* model call of the route handler succeeds, the handler has read the
\* message history the client sent and the client appends an assistant
\* message whose content is the text the handler generated.
C21_ChatAgreement ==
  [][(/\ submit # Null /\ submit' # submit
      /\ submit[1].at = "response"
      /\ submit[1].handler.user # Null
      /\ submit[1].handler.model # Null)
       => /\ submit[1].handler.read
               = Some(submit[1].body.conversationHistory)
          /\ messages'
               = Append(messages, AssistantMessage(submit[1].handler.model))
    ]_vars

\* No request of handleSubmit is answered with an ok status by the route
\* handler: handleSubmit never gets past the response of its fetch.
C21_NeverAnswered ==
  submit # Null => (submit[1].at \in { "fetch", "response" }
                      /\ ~Ok(submit[1].response))

\* C22: every user message handleSubmit adds to the displayed conversation
\* is eventually in the messages table for (user, pdfId), with the row of
\* the assistant reply after it.
C22_UserMessagePersisted ==
  \A c \in Inputs :
    (submit # Null /\ submit[1].input = c)
      ~> (\E i, j \in DOMAIN messagesTable :
            /\ i < j
            /\ messagesTable[i]
                 = MessageRow(ChatUser, ChatPdfId, "user", Some(c))
            /\ messagesTable[j].role = "assistant"
            /\ messagesTable[j].user_id = ChatUser
            /\ messagesTable[j].pdf_id = ChatPdfId)

\* A step in which handleUpload ends without having stored the row.
UploadFails == upload # Null /\ upload' = Null /\ pdf_files' = pdf_files

\* C23: onPdfUploaded is called only when getUser, the storage upload, the
\* extraction and the pdf_files insert have succeeded, in that order; the
\* step on which handleUpload fails issues nothing further, does not call
\* onPdfUploaded, leaves the dialog as it is and sets the error message; and
\* however handleUpload ends, isUploading is false.
C23_UploadOrderAndFailure ==
  [][/\ pdfFiles' # pdfFiles
          => /\ upload # Null /\ upload[1].at = "insert"
             /\ upload[1].done = << "getUser", "upload", "extract" >>
             /\ pdf_files' = pdf_files \cup { pdfFiles'[1] }
             /\ pdfFiles'[1] \notin pdf_files
     /\ UploadFails
          => /\ pdfFiles' = pdfFiles /\ selectedPdf' = selectedPdf
             /\ isUploadOpen' = isUploadOpen
             /\ bucket' = bucket
             /\ error' # Null
     /\ (upload # Null /\ upload' = Null) => ~isUploading'
    ]_vars

\* One upload has failed after its storage upload and one has succeeded: two
\* objects are stored, one row is in the table and in the sidebar, and the
\* dialog is closed with nothing under way.
C23_Witness ==
  /\ Cardinality(bucket) = 2
  /\ Cardinality(pdf_files) = 1
  /\ Len(pdfFiles) = 1
  /\ ~isUploadOpen /\ ~isUploading /\ upload = Null

====
